---- MODULE Spec2Model ----
(***************************************************************************)
(* Model of plot.py: a one-shot script that parses mood journal records    *)
(* from standard input, sorts them by date and renders six charts.         *)
(*                                                                         *)
(* Python values are modelled as follows.                                  *)
(*   str        a sequence of one-character strings                        *)
(*   None       the marker value None (only ever compared with strings     *)
(*              modelled as sequences)                                     *)
(*   dict       a record; a missing key is a field missing from the record *)
(*   datetime   a record [year, month, day]                                *)
(*   float      the result of true division, an exact fraction <<p, q>>    *)
(*              in lowest terms (the values of the model are far below the *)
(*              precision of a double)                                     *)
(*   exception  the status field of a result record                        *)
(* Python indices are 0-based; sequences here are 1-based, so element i of *)
(* a Python list is element i+1 of the sequence.                           *)
(***************************************************************************)
EXTENDS Integers, Sequences, FiniteSets, TLC

VARIABLES
    stdin,   \* the JSON array read from standard input
    moods,   \* the module-level list of Mood entries
    pc,      \* the position of the script
    open,    \* the charts whose viewer window is open
    shown,   \* the charts displayed so far, in order
    ret      \* the outcome of the last call

vars == <<stdin, moods, pc, open, shown, ret>>

----------------------------------------------------------------------------
(* Bounds of the model *)

MaxLen == 3        \* longest entry list given to a smoother or a ranking
MaxWindow == 2     \* largest window_size given to a smoother
MaxTop == 3        \* largest n given to a ranking
MaxRecords == 2    \* longest JSON array on standard input

----------------------------------------------------------------------------
(* Python built-ins *)

None == <<"None">>

Max(a, b) == IF a >= b THEN a ELSE b

Min(a, b) == IF a <= b THEN a ELSE b

RECURSIVE GCD(_, _)
GCD(a, b) == IF b = 0 THEN a ELSE GCD(b, a % b)

\* a / b for integers a >= 0, b > 0
TrueDiv(a, b) == LET g == GCD(a, b) IN <<a \div g, b \div g>>

\* x < y for two floats
FloatLess(x, y) == x[1] * y[2] < y[1] * x[2]

RECURSIVE sum(_)
sum(s) == IF s = <<>> THEN 0 ELSE s[1] + sum(Tail(s))

\* s[start:end] for 0 <= start, 0 <= end
Slice(s, start, end) ==
    LET stop == Min(end, Len(s))
    IN  IF stop <= start THEN <<>> ELSE SubSeq(s, start + 1, stop)

UpperCase == <<"A", "B", "C", "D", "E", "F", "G", "H", "I", "J", "K", "L", "M",
               "N", "O", "P", "Q", "R", "S", "T", "U", "V", "W", "X", "Y", "Z">>

LowerCase == <<"a", "b", "c", "d", "e", "f", "g", "h", "i", "j", "k", "l", "m",
               "n", "o", "p", "q", "r", "s", "t", "u", "v", "w", "x", "y", "z">>

\* str.lower()
lower(s) ==
    [p \in 1..Len(s) |->
        IF \E u \in 1..26 : UpperCase[u] = s[p]
        THEN LowerCase[CHOOSE u \in 1..26 : UpperCase[u] = s[p]]
        ELSE s[p]]

\* word in text
Contains(word, text) ==
    \E p \in 0..(Len(text) - Len(word)) : SubSeq(text, p + 1, p + Len(word)) = word

\* sorted(s, key=..., reverse=...) and list.sort(key=...): a stable sort,
\* also when reversed. less[i, j] tells whether the key of s[i] is less than
\* the key of s[j].
sorted(s, less, reverse) ==
    LET n == Len(s)
        Before(j, i) ==
            \/ IF reverse THEN less[i, j] ELSE less[j, i]
            \/ ~less[i, j] /\ ~less[j, i] /\ j < i
        pos(i) == 1 + Cardinality({j \in 1..n : Before(j, i)})
    IN  [p \in 1..n |-> s[CHOOSE i \in 1..n : pos(i) = p]]

\* seq.take(n)
take(s, n) == SubSeq(s, 1, Min(n, Len(s)))

----------------------------------------------------------------------------
(* datetime *)

Digits == <<"0", "1", "2", "3", "4", "5", "6", "7", "8", "9">>

IsDigit(c) == \E d \in 1..10 : Digits[d] = c

DigitVal(c) == (CHOOSE d \in 1..10 : Digits[d] = c) - 1

RECURSIVE Number(_)
Number(s) == IF s = <<>> THEN 0
             ELSE 10 * Number(SubSeq(s, 1, Len(s) - 1)) + DigitVal(s[Len(s)])

AllDigits(s) == \A p \in 1..Len(s) : IsDigit(s[p])

IsLeap(y) == (y % 4 = 0 /\ y % 100 # 0) \/ y % 400 = 0

DaysInMonth(y, m) ==
    IF m = 2 THEN (IF IsLeap(y) THEN 29 ELSE 28)
    ELSE IF m \in {4, 6, 9, 11} THEN 30 ELSE 31

\* datetime.strptime(s, "%Y-%m-%d"): four digits, a dash, a month of one or
\* two digits, a dash, a day of one or two digits; the date must exist.
strptime(s) ==
    LET Shape(ml, dl) ==
            /\ Len(s) = 6 + ml + dl
            /\ AllDigits(SubSeq(s, 1, 4))
            /\ s[5] = "-"
            /\ AllDigits(SubSeq(s, 6, 5 + ml))
            /\ s[6 + ml] = "-"
            /\ AllDigits(SubSeq(s, 7 + ml, 6 + ml + dl))
        shapes == {sh \in {1, 2} \X {1, 2} : Shape(sh[1], sh[2])}
    IN  IF shapes = {} THEN [status |-> "ValueError"]
        ELSE LET sh == CHOOSE x \in shapes : TRUE
                 y == Number(SubSeq(s, 1, 4))
                 m == Number(SubSeq(s, 6, 5 + sh[1]))
                 d == Number(SubSeq(s, 7 + sh[1], 6 + sh[1] + sh[2]))
             IN  IF y >= 1 /\ m \in 1..12 /\ d \in 1..DaysInMonth(y, m)
                 THEN [status |-> "ok", value |-> [year |-> y, month |-> m, day |-> d]]
                 ELSE [status |-> "ValueError"]

\* a < b for two datetimes
DateLess(a, b) ==
    \/ a.year < b.year
    \/ a.year = b.year /\ a.month < b.month
    \/ a.year = b.year /\ a.month = b.month /\ a.day < b.day

----------------------------------------------------------------------------
(* Mood *)

Mood(type, date, score, notes) ==
    [type |-> type, date |-> date, score |-> score, notes |-> notes]

\* data.get(key)
Get(data, key) == IF key \in DOMAIN data THEN data[key] ELSE None

\* Mood.from_dict(data); the arguments are evaluated in the order type, date,
\* score, notes and the first one to raise ends the call.
from_dict(data) ==
    IF "date" \notin DOMAIN data THEN [status |-> "TypeError"]
    ELSE LET date == strptime(data.date)
         IN  IF date.status # "ok" THEN [status |-> date.status]
             ELSE IF "scores" \notin DOMAIN data THEN [status |-> "TypeError"]
             ELSE IF data.scores = <<>> THEN [status |-> "IndexError"]
             ELSE [status |-> "ok",
                   value |-> Mood(data.type, date.value, data.scores[1],
                                  Get(data, "notes"))]

----------------------------------------------------------------------------
(* The three smoothers *)

\* start = max(0, i - window_size)
WindowStart(i, window_size) == Max(0, i - window_size)

\* faulty variant of WindowEnd: the slice end taken one further
WindowEnd_OneFurther(n, i, window_size) == Min(n, i + window_size + 1)

\* end = min(len(moods), i + window_size)
WindowEnd(n, i, window_size) == Min(n, i + window_size)

\* window = moods[start:end]
Window(s, i, window_size) ==
    Slice(s, WindowStart(i, window_size), WindowEnd(Len(s), i, window_size))

\* The iterations of a smoother's loop over n elements that raise:
\* ZeroDivisionError when the window is empty, TypeError when the sum meets
\* an element (bad[p] for element p of the list) whose number cannot be taken.
Raising(n, bad, window_size) ==
    LET places(i) == Window([p \in 1..n |-> p], i, window_size)
    IN  {i \in 0..(n - 1) :
            \/ places(i) = <<>>
            \/ \E q \in 1..Len(places(i)) : bad[places(i)[q]]}

\* The result of a smoother whose loop stops at the first of the iterations
\* `raising`: the exception raised, the windows taken up to there (the last
\* one is the window of the iteration that raised), and arg, the list passed
\* in as the call leaves it.
Raised(s, bad, window_size, raising) ==
    LET last == CHOOSE i \in raising : \A j \in raising : i <= j
    IN  [status |-> IF Window(s, last, window_size) = <<>>
                    THEN "ZeroDivisionError" ELSE "TypeError",
         value |-> <<>>,
         windows |-> [p \in 1..(last + 1) |-> Window(s, p - 1, window_size)],
         arg |-> s]

\* faulty variant of smooth_moods: smoothed_moods starts as the list passed
\* in instead of a new list, so the new entries are appended to the input
smooth_moods_Aliased(ms, window_size) ==
    LET n == Len(ms)
        none == [p \in 1..n |-> FALSE]
        Score(window) ==
            TrueDiv(sum([p \in 1..Len(window) |-> window[p].score]), Len(window))
        out == [p \in 1..n |->
                   Mood(ms[p].type, ms[p].date,
                        Score(Window(ms, p - 1, window_size)), ms[p].notes)]
    IN  IF Raising(n, none, window_size) # {}
        THEN Raised(ms, none, window_size, Raising(n, none, window_size))
        ELSE [status |-> "ok",
              value |-> ms \o out,
              windows |-> [p \in 1..n |-> Window(ms, p - 1, window_size)],
              arg |-> ms \o out]

smooth_moods(ms, window_size) ==
    LET n == Len(ms)
        none == [p \in 1..n |-> FALSE]
        Score(window) ==
            TrueDiv(sum([p \in 1..Len(window) |-> window[p].score]), Len(window))
    IN  IF Raising(n, none, window_size) # {}
        THEN Raised(ms, none, window_size, Raising(n, none, window_size))
        ELSE [status |-> "ok",
              value |-> [p \in 1..n |->
                            Mood(ms[p].type, ms[p].date,
                                 Score(Window(ms, p - 1, window_size)), ms[p].notes)],
              windows |-> [p \in 1..n |-> Window(ms, p - 1, window_size)],
              arg |-> ms]

\* len(mood.notes) raises TypeError when the notes are None
smooth_note_len(ms, window_size) ==
    LET n == Len(ms)
        nolen == [p \in 1..n |-> ms[p].notes = None]
        NoteLen(window) ==
            TrueDiv(sum([p \in 1..Len(window) |-> Len(window[p].notes)]), Len(window))
    IN  IF Raising(n, nolen, window_size) # {}
        THEN Raised(ms, nolen, window_size, Raising(n, nolen, window_size))
        ELSE [status |-> "ok",
              value |-> [p \in 1..n |->
                            <<ms[p].date, NoteLen(Window(ms, p - 1, window_size))>>],
              windows |-> [p \in 1..n |-> Window(ms, p - 1, window_size)],
              arg |-> ms]

smooth_ints(ints, window_size) ==
    LET n == Len(ints)
        none == [p \in 1..n |-> FALSE]
    IN  IF Raising(n, none, window_size) # {}
        THEN Raised(ints, none, window_size, Raising(n, none, window_size))
        ELSE [status |-> "ok",
              value |-> [p \in 1..n |->
                            TrueDiv(sum(Window(ints, p - 1, window_size)),
                                    Len(Window(ints, p - 1, window_size)))],
              windows |-> [p \in 1..n |-> Window(ints, p - 1, window_size)],
              arg |-> ints]

\* avg(iterable, key), given keys = [key(x) for x in iterable]
avg(keys) == TrueDiv(sum(keys), Len(keys))

----------------------------------------------------------------------------
(* The series each chart computes *)

\* seq.group_by(key): the pairs <<key, elements>> in the order in which the
\* keys are first met, each group in the order of the sequence. keys[p] is
\* the key of s[p].
group_by(s, keys) ==
    LET first == {i \in 1..Len(s) : \A j \in 1..(i - 1) : keys[j] # keys[i]}
        nth(p) == CHOOSE i \in first : Cardinality({j \in first : j < i}) = p - 1
        members(k) == {i \in 1..Len(s) : keys[i] = k}
        ith(k, q) ==
            CHOOSE i \in members(k) : Cardinality({j \in members(k) : j < i}) = q - 1
    IN  [p \in 1..Cardinality(first) |->
            <<keys[nth(p)],
              [q \in 1..Cardinality(members(keys[nth(p)])) |-> s[ith(keys[nth(p)], q)]]>>]

\* faulty variant of MonthKey: the year left out of the key
MonthKey_MonthOnly(x) == <<x.date.month>>

\* lambda x: (x.date.year, x.date.month)
MonthKey(x) == <<x.date.year, x.date.month>>

\* seq(moods).group_by(lambda x: (x.date.year, x.date.month))
MonthGroups(ms) == group_by(ms, [p \in 1..Len(ms) |-> MonthKey(ms[p])])

\* .map(lambda x: (x[0], avg(x[1], key=lambda y: y.score)))
MonthMeans(groups) ==
    [p \in 1..Len(groups) |->
        <<groups[p][1],
          avg([q \in 1..Len(groups[p][2]) |-> groups[p][2][q].score])>>]

\* key=lambda x: x[1] over the monthly means
ByMean(means) == [i, j \in 1..Len(means) |-> FloatLess(means[i][2], means[j][2])]

\* faulty variant of top_moods: reverse=True left out
top_moods_Ascending(ms, n) ==
    LET means == MonthMeans(MonthGroups(ms))
    IN  [status |-> "ok",
         groups |-> MonthGroups(ms),
         means |-> means,
         value |-> take(sorted(means, ByMean(means), FALSE), n)]

\* top_moods of plot_top_moods
top_moods(ms, n) ==
    LET means == MonthMeans(MonthGroups(ms))
    IN  [status |-> "ok",
         groups |-> MonthGroups(ms),
         means |-> means,
         value |-> take(sorted(means, ByMean(means), TRUE), n)]

\* worst_moods of plot_worst_moods
worst_moods(ms, n) ==
    LET means == MonthMeans(MonthGroups(ms))
    IN  [status |-> "ok",
         groups |-> MonthGroups(ms),
         means |-> means,
         value |-> take(sorted(means, ByMean(means), FALSE), n)]

\* key=lambda x: len(x.notes)
ByNoteLen(ms) == [i, j \in 1..Len(ms) |-> Len(ms[i].notes) < Len(ms[j].notes)]

\* faulty variant of top_notes: sorted ascending, then reversed, which turns
\* the order of equal keys round as well
top_notes_Reversed(ms, n) ==
    LET asc == sorted(ms, ByNoteLen(ms), FALSE)
    IN  IF \E p \in 1..Len(ms) : ms[p].notes = None
        THEN [status |-> "TypeError", value |-> <<>>]
        ELSE [status |-> "ok",
              value |-> take([p \in 1..Len(asc) |-> asc[Len(asc) + 1 - p]], n)]

\* top_notes of plot_top_longest_notes; len(None) raises TypeError
top_notes(ms, n) ==
    IF \E p \in 1..Len(ms) : ms[p].notes = None
    THEN [status |-> "TypeError", value |-> <<>>]
    ELSE [status |-> "ok", value |-> take(sorted(ms, ByNoteLen(ms), TRUE), n)]

\* words of plot_days_containing_words, already lower-cased
Words == {<<"w", "o", "r", "d">>}

\* word_count of plot_days_containing_words; None.lower() raises
word_count(ms, words) ==
    IF \E p \in 1..Len(ms) : ms[p].notes = None
    THEN [status |-> "AttributeError", value |-> <<>>]
    ELSE [status |-> "ok",
          value |-> [p \in 1..Len(ms) |->
                        <<ms[p].date,
                          Cardinality({w \in {lower(x) : x \in words} :
                                          Contains(w, lower(ms[p].notes))})>>]]

\* smoothed_word_count of plot_days_containing_words
smoothed_word_count(ms, words, window_size) ==
    LET counted == word_count(ms, words)
    IN  IF counted.status # "ok" THEN counted
        ELSE smooth_ints([p \in 1..Len(ms) |-> counted.value[p][2]], window_size)

----------------------------------------------------------------------------
(* Calling a smoother once on any date-sorted entry list with any window *)

Date(y, m, d) == [year |-> y, month |-> m, day |-> d]

\* the date-sorted lists of at most maxlen entries drawn from S
SortedLists(S, maxlen) ==
    {s \in UNION {[1..n -> S] : n \in 0..maxlen} :
        \A p \in 1..(Len(s) - 1) : ~DateLess(s[p + 1].date, s[p].date)}

SmoothEntries ==
    {Mood("Mood", d, sc, nt) :
        d \in {Date(2024, 1, 1), Date(2024, 1, 2), Date(2024, 1, 3)},
        sc \in {1, 3, 5},
        nt \in {<<"a">>, <<"W", "o", "r", "d", "s">>}}

InitSmooth ==
    /\ stdin = <<>>
    /\ moods \in SortedLists(SmoothEntries, MaxLen)
    /\ pc = "call"
    /\ open = {}
    /\ shown = <<>>
    /\ ret = [fn |-> "none"]

Called(fn, arg, r) == [fn |-> fn, param |-> arg] @@ r

CallSmoothMoods ==
    /\ pc = "call"
    /\ \E window_size \in 0..MaxWindow :
        LET r == smooth_moods(moods, window_size)
        IN  /\ moods' = r.arg
            /\ ret' = Called("smooth_moods", window_size, r)
    /\ pc' = "returned"
    /\ UNCHANGED <<stdin, open, shown>>

CallSmoothNoteLen ==
    /\ pc = "call"
    /\ \E window_size \in 0..MaxWindow :
        LET r == smooth_note_len(moods, window_size)
        IN  /\ moods' = r.arg
            /\ ret' = Called("smooth_note_len", window_size, r)
    /\ pc' = "returned"
    /\ UNCHANGED <<stdin, open, shown>>

\* smooth_ints on the word counts of the entries, as the script calls it
CallSmoothInts ==
    /\ pc = "call"
    /\ \E window_size \in 0..MaxWindow :
        LET counted == word_count(moods, Words).value
            r == smooth_ints([p \in 1..Len(moods) |-> counted[p][2]], window_size)
        IN  ret' = Called("smooth_ints", window_size, r)
    /\ pc' = "returned"
    /\ UNCHANGED <<stdin, moods, open, shown>>

NextSmooth == CallSmoothMoods \/ CallSmoothNoteLen \/ CallSmoothInts

SpecSmooth == InitSmooth /\ [][NextSmooth]_vars

----------------------------------------------------------------------------
(* Calling a ranking once on any date-sorted entry list with any n *)

RankEntries ==
    {Mood("Mood", d, sc, nt) :
        d \in {Date(2023, 12, 31), Date(2024, 1, 1), Date(2024, 12, 1)},
        sc \in {1, 4},
        nt \in {<<"a">>, <<"b", "b">>, <<"c", "c", "c">>}}

InitRank ==
    /\ stdin = <<>>
    /\ moods \in SortedLists(RankEntries, MaxLen)
    /\ pc = "call"
    /\ open = {}
    /\ shown = <<>>
    /\ ret = [fn |-> "none"]

CallTopMoods ==
    /\ pc = "call"
    /\ \E n \in 0..MaxTop : ret' = Called("plot_top_moods", n, top_moods(moods, n))
    /\ pc' = "returned"
    /\ UNCHANGED <<stdin, moods, open, shown>>

CallWorstMoods ==
    /\ pc = "call"
    /\ \E n \in 0..MaxTop : ret' = Called("plot_worst_moods", n, worst_moods(moods, n))
    /\ pc' = "returned"
    /\ UNCHANGED <<stdin, moods, open, shown>>

CallTopLongestNotes ==
    /\ pc = "call"
    /\ \E n \in 0..MaxTop :
        ret' = Called("plot_top_longest_notes", n, top_notes(moods, n))
    /\ pc' = "returned"
    /\ UNCHANGED <<stdin, moods, open, shown>>

NextRank == CallTopMoods \/ CallWorstMoods \/ CallTopLongestNotes

SpecRank == InitRank /\ [][NextRank]_vars

----------------------------------------------------------------------------
(* The script *)

\* the arguments of the six calls at the end of the script
MoodWindow == 60
NoteWindow == 14
WordWindow == 14
TopMonths == 5
WorstMonths == 5
TopNotes == 10

DateFields ==
    {<<>>} \cup
    {[date |-> d] : d \in
        {<<"2", "0", "2", "4", "-", "0", "2", "-", "0", "1">>,
         <<"2", "0", "2", "4", "-", "1", "-", "3", "1">>,
         <<"2", "0", "2", "4", "-", "0", "2", "-", "3", "0">>,
         <<"3", "1", "/", "0", "1", "/", "2", "0", "2", "4">>}}

ScoreFields == {<<>>} \cup {[scores |-> s] : s \in {<<>>, <<4>>, <<2, 5>>}}

NoteFields == {<<>>} \cup {[notes |-> nt] : nt \in {<<"W", "o", "r", "d">>}}

\* the records of the JSON array: any of date, scores and notes may be missing
Records ==
    {[type |-> "Mood"] @@ df @@ sf @@ nf :
        df \in DateFields, sf \in ScoreFields, nf \in NoteFields}

Init ==
    /\ stdin \in UNION {[1..n -> Records] : n \in 0..MaxRecords}
    /\ moods = <<>>
    /\ pc = "load"
    /\ open = {}
    /\ shown = <<>>
    /\ ret = [fn |-> "none"]

\* faulty variant of load: records whose conversion raises are skipped
load_SkipRaising(array) ==
    LET Converts(rec) == from_dict(rec).status = "ok"
        good == SelectSeq(array, Converts)
    IN  [status |-> "ok", value |-> [p \in 1..Len(good) |-> from_dict(good[p]).value]]

\* [Mood.from_dict(x) for x in json.loads(sys.stdin.read())]: the first record
\* whose conversion raises ends the comprehension
load(array) ==
    LET raising == {p \in 1..Len(array) : from_dict(array[p]).status # "ok"}
    IN  IF raising = {}
        THEN [status |-> "ok",
              value |-> [p \in 1..Len(array) |-> from_dict(array[p]).value]]
        ELSE LET p == CHOOSE q \in raising : \A o \in raising : q <= o
             IN  [status |-> from_dict(array[p]).status, value |-> <<>>]

\* the statement the script runs after stmt
After(stmt) ==
    CASE stmt = "load" -> "sort"
      [] stmt = "sort" -> "plot_mood_in_time"
      [] stmt = "plot_mood_in_time" -> "plot_top_moods"
      [] stmt = "plot_top_moods" -> "plot_worst_moods"
      [] stmt = "plot_worst_moods" -> "plot_top_longest_notes"
      [] stmt = "plot_top_longest_notes" -> "plot_note_len_in_time"
      [] stmt = "plot_note_len_in_time" -> "plot_days_containing_words"
      [] stmt = "plot_days_containing_words" -> "done"

Load ==
    /\ pc = "load"
    /\ LET r == load(stdin)
       IN  /\ ret' = Called("from_dict", Len(stdin), r)
           /\ IF r.status = "ok"
              THEN moods' = r.value /\ pc' = After("load")
              ELSE moods' = moods /\ pc' = "crashed"
    /\ UNCHANGED <<stdin, open, shown>>

\* key=lambda x: x.date
ByDate(ms) == [i, j \in 1..Len(ms) |-> DateLess(ms[i].date, ms[j].date)]

\* moods.sort(key=lambda x: x.date)
Sort ==
    /\ pc = "sort"
    /\ moods' = sorted(moods, ByDate(moods), FALSE)
    /\ pc' = After("sort")
    /\ UNCHANGED <<stdin, open, shown, ret>>

\* faulty variant of Plot: plt.show() returns at once, leaving the viewer open
Plot_ShowReturns(chart, param, r) ==
    /\ pc = chart
    /\ chart \notin open
    /\ ret' = Called(chart, param, r)
    /\ IF r.status = "ok"
       THEN /\ open' = open \cup {chart}
            /\ shown' = Append(shown, chart)
            /\ pc' = After(chart)
       ELSE /\ pc' = "crashed"
            /\ UNCHANGED <<open, shown>>
    /\ UNCHANGED stdin

\* A chart function computes its series and, unless that raised, draws the
\* chart and calls plt.show(), which opens the viewer and does not return
\* until the viewer is closed.
Plot(chart, param, r) ==
    /\ pc = chart
    /\ chart \notin open
    /\ ret' = Called(chart, param, r)
    /\ IF r.status = "ok"
       THEN /\ open' = open \cup {chart}
            /\ shown' = Append(shown, chart)
            /\ pc' = pc
       ELSE /\ pc' = "crashed"
            /\ UNCHANGED <<open, shown>>
    /\ UNCHANGED stdin

plot_mood_in_time ==
    /\ Plot("plot_mood_in_time", MoodWindow, smooth_moods(moods, MoodWindow))
    /\ moods' = smooth_moods(moods, MoodWindow).arg

plot_top_moods ==
    /\ Plot("plot_top_moods", TopMonths, top_moods(moods, TopMonths))
    /\ UNCHANGED moods

plot_worst_moods ==
    /\ Plot("plot_worst_moods", WorstMonths, worst_moods(moods, WorstMonths))
    /\ UNCHANGED moods

plot_top_longest_notes ==
    /\ Plot("plot_top_longest_notes", TopNotes, top_notes(moods, TopNotes))
    /\ UNCHANGED moods

plot_note_len_in_time ==
    /\ Plot("plot_note_len_in_time", NoteWindow, smooth_note_len(moods, NoteWindow))
    /\ moods' = smooth_note_len(moods, NoteWindow).arg

plot_days_containing_words ==
    /\ Plot("plot_days_containing_words", WordWindow,
            smoothed_word_count(moods, Words, WordWindow))
    /\ UNCHANGED moods

\* the user closes the viewer: plt.show() returns, and so does the chart
\* function
CloseViewer ==
    /\ pc \in open
    /\ open' = open \ {pc}
    /\ pc' = After(pc)
    /\ UNCHANGED <<stdin, moods, shown, ret>>

Next ==
    \/ Load
    \/ Sort
    \/ plot_mood_in_time
    \/ plot_top_moods
    \/ plot_worst_moods
    \/ plot_top_longest_notes
    \/ plot_note_len_in_time
    \/ plot_days_containing_words
    \/ CloseViewer

Spec == Init /\ [][Next]_vars

----------------------------------------------------------------------------
(* Properties of the smoothers, under SpecSmooth *)

Smoothers == {"smooth_moods", "smooth_note_len", "smooth_ints"}

\* the sum of the scores of the Python elements lo..hi (inclusive) of s
RECURSIVE ScoreSum(_, _, _)
ScoreSum(s, lo, hi) == IF lo > hi THEN 0 ELSE s[lo + 1].score + ScoreSum(s, lo + 1, hi)

\* the float x is the quotient total / count
IsQuotient(x, total, count) == count > 0 /\ x[1] * count = x[2] * total

\* the numbers smooth_ints is given under SpecSmooth
IntsGiven == [p \in 1..Len(moods) |-> word_count(moods, Words).value[p][2]]

\* C1: for a non-empty entry list and any window parameter k, smooth_moods
\* returns, at each index i, the mean of the scores of entry i together with
\* the existing entries up to k positions before it and up to k positions
\* after it (so scores [1,5,3] with k = 1 give [3.0, 3.0, 4.0]). Stated for
\* k >= 1; what the call does with k = 0 is the subject of C3.
C1_SymmetricWindowMean ==
    (ret.fn = "smooth_moods" /\ Len(moods) >= 1 /\ ret.param >= 1) =>
        /\ ret.status = "ok"
        /\ Len(ret.value) = Len(moods)
        /\ \A i \in 0..(Len(moods) - 1) :
              LET lo == Max(0, i - ret.param)
                  hi == Min(Len(moods) - 1, i + ret.param)
              IN  IsQuotient(ret.value[i + 1].score,
                             ScoreSum(moods, lo, hi), hi - lo + 1)

\* the window sizes claimed for a call on n elements with window parameter k
WindowSizesAsClaimed(n, k) ==
    /\ ret.status # "ZeroDivisionError"
    /\ Len(ret.windows) = n
    /\ \A i \in 0..(n - 1) :
          /\ Len(ret.windows[i + 1]) = Min(n, i + k) - Max(0, i - k)
          /\ Len(ret.windows[i + 1]) \in 1..(2 * k + 1)

C3_ZeroWindowIdentity ==
    (ret.fn \in {"smooth_moods", "smooth_ints"} /\ ret.param = 0) =>
        /\ ret.status = "ok"
        /\ Len(ret.value) = Len(moods)
        /\ \A p \in 1..Len(moods) :
              IF ret.fn = "smooth_moods"
              THEN ret.value[p].score = <<moods[p].score, 1>>
              ELSE ret.value[p] = <<IntsGiven[p], 1>>

\* C4: for every k >= 0 and every input of n >= 0 elements, each smoother
\* returns normally, with exactly n elements.
C4_SameLength ==
    ret.fn \in Smoothers =>
        /\ ret.status = "ok"
        /\ Len(ret.value) = Len(moods)

\* C5: a call of smooth_moods leaves the entry list and every entry in it as
\* they were (so whatever runs next reads the original scores), and when it
\* returns, output entry i carries the type, date and notes of input entry i
\* and, as its score, the mean of the scores of the window taken at i.
C5_InputUntouched ==
    [][ret'.fn = "smooth_moods" =>
          /\ moods' = moods
          /\ ret'.status = "ok" =>
                /\ Len(ret'.value) = Len(moods)
                /\ \A p \in 1..Len(moods) :
                      /\ ret'.value[p].type = moods[p].type
                      /\ ret'.value[p].date = moods[p].date
                      /\ ret'.value[p].notes = moods[p].notes
                      /\ IsQuotient(ret'.value[p].score,
                                    ScoreSum(ret'.windows[p], 0,
                                             Len(ret'.windows[p]) - 1),
                                    Len(ret'.windows[p]))]_vars

\* C5 witness: smooth_moods has returned a score that differs from the score
\* of the input entry at the same index, which the entry list still holds.
C5_Witness ==
    /\ ret.fn = "smooth_moods"
    /\ ret.status = "ok"
    /\ Len(moods) >= 2
    /\ \E p \in 1..Len(moods) :
          /\ moods[p].score \in {1, 3, 5}
          /\ ret.value[p].score # <<moods[p].score, 1>>

----------------------------------------------------------------------------
(* Properties of the rankings, under SpecRank *)

Monthly == {"plot_top_moods", "plot_worst_moods"}

\* the (year, month) of an entry
MonthOf(x) == <<x.date.year, x.date.month>>

\* the entries of s dated in month ym
InMonth(s, ym) == LET Dated(x) == MonthOf(x) = ym IN SelectSeq(s, Dated)

\* the entries of s whose note has length l
WithNoteLen(s, l) == LET Long(x) == Len(x.notes) = l IN SelectSeq(s, Long)

\* C6: the monthly aggregation partitions the entries by (year, month): no
\* two groups share a key, every entry is in the group of its month and in
\* no other, the group sizes add up to the number of entries, and the value
\* reported for a group is the mean of the scores of the entries of its month.
C6_MonthlyPartition ==
    ret.fn \in Monthly =>
        LET G == ret.groups
            M == ret.means
        IN  /\ \A p, q \in 1..Len(G) : G[p][1] = G[q][1] => p = q
            /\ \A p \in 1..Len(G) :
                  G[p][2] # <<>> /\ G[p][2] = InMonth(moods, G[p][1])
            /\ \A i \in 1..Len(moods) :
                  \E p \in 1..Len(G) : G[p][1] = MonthOf(moods[i])
            /\ sum([p \in 1..Len(G) |-> Len(G[p][2])]) = Len(moods)
            /\ Len(M) = Len(G)
            /\ \A p \in 1..Len(G) :
                  /\ M[p][1] = G[p][1]
                  /\ IsQuotient(M[p][2],
                                ScoreSum(InMonth(moods, G[p][1]), 0,
                                         Len(InMonth(moods, G[p][1])) - 1),
                                Len(InMonth(moods, G[p][1])))
            /\ \A v \in 1..Len(ret.value) : \E p \in 1..Len(M) : ret.value[v] = M[p]

\* C6 witness: a monthly ranking has run on entries of two months, one of
\* them holding two entries with different scores.
C6_Witness ==
    /\ ret.fn = "plot_top_moods"
    /\ Len(ret.groups) = 2
    /\ \E p \in 1..2 :
          /\ Len(ret.groups[p][2]) = 2
          /\ ret.groups[p][2][1].score # ret.groups[p][2][2].score

\* the ranked output is ordered as its ranking says
RankedInOrder ==
    \A p, q \in 1..Len(ret.value) :
        p < q =>
            LET a == ret.value[p]
                b == ret.value[q]
            IN  CASE ret.fn = "plot_top_moods" ->
                        a[2][1] * b[2][2] >= b[2][1] * a[2][2]
                  [] ret.fn = "plot_worst_moods" ->
                        a[2][1] * b[2][2] <= b[2][1] * a[2][2]
                  [] ret.fn = "plot_top_longest_notes" ->
                        Len(a.notes) >= Len(b.notes)

Rankings == {"plot_top_moods", "plot_worst_moods", "plot_top_longest_notes"}

\* C7 as claimed: each ranking of n entries with a requested top-n value t
\* returns exactly min(n, t) items, in the order of its ranking.
C7_LengthMinEntries ==
    ret.fn \in Rankings =>
        /\ Len(ret.value) = Min(Len(moods), ret.param)
        /\ RankedInOrder

\* C7 as amended: the two monthly rankings return exactly min(g, t) items, g
\* being the number of distinct (year, month) among the n entries, and the
\* longest-note ranking exactly min(n, t); each in the order of its ranking
\* (notes "a", "bb", "ccc" with t = 2 give "ccc", "bb").
C7_LengthMinRanked ==
    ret.fn \in Rankings =>
        /\ IF ret.fn \in Monthly
           THEN Len(ret.value) =
                    Min(Cardinality({MonthOf(moods[i]) : i \in 1..Len(moods)}),
                        ret.param)
           ELSE Len(ret.value) = Min(Len(moods), ret.param)
        /\ RankedInOrder
        /\ (/\ ret.fn = "plot_top_longest_notes"
            /\ ret.param = 2
            /\ [i \in 1..Len(moods) |-> moods[i].notes]
                   = << <<"a">>, <<"b", "b">>, <<"c", "c", "c">> >>)
           => [i \in 1..Len(ret.value) |-> ret.value[i].notes]
                   = << <<"c", "c", "c">>, <<"b", "b">> >>

\* C7 witness: the top-months ranking, asked for two months, has returned
\* the single month that its three entries share.
C7_Witness ==
    /\ ret.fn = "plot_top_moods"
    /\ ret.param = 2
    /\ Len(moods) = 3
    /\ Len(ret.value) = 1

\* C8: in the longest-note ranking, the entries kept for any one note length
\* are the earliest-dated entries of that length, in date order.
C8_TiesInDateOrder ==
    (ret.fn = "plot_top_longest_notes" /\ ret.status = "ok") =>
        \A l \in {Len(moods[i].notes) : i \in 1..Len(moods)} :
            LET all == WithNoteLen(moods, l)
                kept == WithNoteLen(ret.value, l)
            IN  /\ Len(kept) <= Len(all)
                /\ \A j \in 1..Len(kept) : kept[j].date = all[j].date

\* C8 witness: two entries of different dates tie for the second and last
\* place kept, and the earlier one has been kept.
C8_Witness ==
    /\ ret.fn = "plot_top_longest_notes"
    /\ ret.param = 2
    /\ Len(moods) = 3
    /\ Len(moods[1].notes) = 3
    /\ Len(moods[2].notes) = 1
    /\ Len(moods[3].notes) = 1
    /\ moods[2].date # moods[3].date
    /\ ret.value = <<moods[1], moods[2]>>

----------------------------------------------------------------------------
(* Properties of the script, under Spec *)

\* the date strings of Records that name no date in the form YYYY-MM-DD
BadDates ==
    {<<"2", "0", "2", "4", "-", "0", "2", "-", "3", "0">>,
     <<"3", "1", "/", "0", "1", "/", "2", "0", "2", "4">>}

Malformed(rec) ==
    \/ "date" \notin DOMAIN rec
    \/ rec.date \in BadDates
    \/ "scores" \notin DOMAIN rec
    \/ rec.scores = <<>>

ChartOrder ==
    <<"plot_mood_in_time", "plot_top_moods", "plot_worst_moods",
      "plot_top_longest_notes", "plot_note_len_in_time",
      "plot_days_containing_words">>

WellFormed(rec) == ~Malformed(rec) /\ "notes" \in DOMAIN rec

\* C10: on a well-formed input the charts are shown in the order mood trend,
\* top months, worst months, longest notes, note-length trend, keyword trend;
\* at most one viewer is open at any moment, a chart is computed only when
\* the viewers of all charts before it have been closed, and the script is
\* done only when all six have been shown and closed.
C10_OneChartAtATime ==
    (\A p \in 1..Len(stdin) : WellFormed(stdin[p])) =>
        /\ pc # "crashed"
        /\ Len(shown) <= 6
        /\ shown = SubSeq(ChartOrder, 1, Len(shown))
        /\ Cardinality(open) <= 1
        /\ \A c \in open : c = shown[Len(shown)] /\ pc = c
        /\ \A j \in 1..6 :
              pc = ChartOrder[j] => Len(shown) = (IF pc \in open THEN j ELSE j - 1)
        /\ pc \in {"load", "sort"} => shown = <<>>
        /\ pc = "done" => (shown = ChartOrder /\ open = {})

\* C10 witness: the script is done on a well-formed array of two records.
C10_Witness ==
    /\ pc = "done"
    /\ Len(stdin) = 2
    /\ \A p \in 1..2 : WellFormed(stdin[p])
    /\ shown = ChartOrder

====
